---- MODULE Spec2Model ----
(***************************************************************************)
(* Model of the fixed-width bit-set template Bitset<NBits>.                *)
(*                                                                         *)
(* A storage word is modelled as the set of its one-bit positions          *)
(* (a subset of 0..bits_per_word-1), so that 64-bit words are exact.       *)
(* The storage array `bits` is a function from 0..arr_size-1 to words,     *)
(* index 0 being the least-significant word.                               *)
(*                                                                         *)
(* The module also models the UTF-8 decoder decode_glyph on a Cursor<char> *)
(* and the loop over iterGraphemes (specification SpecGraphemes).          *)
(***************************************************************************)
EXTENDS Integers, FiniteSets, Sequences, TLC

VARIABLES
  NBits,  \* the template argument of the instantiation Bitset<NBits>
  build,  \* how the build evaluates an int shift by a count >= 32 (see Builds)
  ctor,   \* the constructor that made the object, and its argument
  bits,   \* storage_t bits: the word array, least-significant word first
  last,   \* the call made last: "construct" or a mutator, with its arguments
  prev,   \* the name of the call made before the last one
  ret,    \* what the last call returned: "this", "undefined" (no return),
          \* or "none" (the call did not return)
  nops,   \* number of calls made so far that changed the state
  aborted,\* the range assertion of get_word failed and ended the program
  text,   \* the bytes of the string handed to iterGraphemes
  cursor, \* Cursor<char>: begin_ and end_, as offsets into text
  glyph,  \* the last call of decode_glyph: its result and what it started from
  loop    \* the range-for loop over iterGraphemes: "running", "ended",
          \* "aborted" (assertion of Cursor::next failed), "none" (no loop)

bitset_vars == <<NBits, build, ctor, bits, last, prev, ret, nops, aborted>>

utf8_vars == <<text, cursor, glyph, loop>>

vars == <<bitset_vars, utf8_vars>>

(***************************************************************************)
(* Bounds of the model.                                                    *)
(***************************************************************************)
\* number of mutator calls made on one object after its construction
MaxOps == 3

\* the instantiations Bitset<N> that are explored
NValues == {1, 8, 9, 15, 16, 17, 31, 32, 33, 40, 64, 65, 96, 100, 128, 130}

\* how a build evaluates the shift of the int literal 1 by a count >= 32
\* (undefined behaviour): "fold" = the compiler folds the shift to 0,
\* "hw" = the shift instruction uses the count modulo 32
Builds == {"fold", "hw"}

(***************************************************************************)
(* Generic helpers on words.                                               *)
(***************************************************************************)
Min(S) == CHOOSE x \in S : \A y \in S : x <= y

\* width of the int literal 1 in get_msb_mask
IntBits == 32

(***************************************************************************)
(* Compile-time configuration of Bitset<NBits>.                            *)
(***************************************************************************)
bits_per_word(N) == IF N > 32 THEN 64 ELSE IF N > 16 THEN 32 ELSE IF N > 8 THEN 16 ELSE 8

all_ones(N) == 0 .. (bits_per_word(N) - 1)

all_zero == {}

\* mutant of arr_size: one more word than N div 64, also when 64 divides N
arr_size_extra_word(N) == (N \div 64) + 1

arr_size(N) == (N + 63) \div 64

bits_in_storage(N) == arr_size(N) * bits_per_word(N)

\* sizeof(Bitset<N>) = sizeof(storage_t), in bytes of 8 bits
sizeof_Bitset(N) == arr_size(N) * (bits_per_word(N) \div 8)

size(N) == N

(***************************************************************************)
(* Private helpers.                                                        *)
(***************************************************************************)
which_word(N, pos) == pos \div bits_per_word(N)

which_bit(N, pos) == pos % bits_per_word(N)

\* mutant of mask_bit: the shift is made on the int literal 1 instead of
\* underlying_t(1), so that the count wraps at the width of int
mask_bit_int(N, pos) == {which_bit(N, pos) % IntBits}

\* underlying_t(1) << which_bit(pos)
mask_bit(N, pos) == {which_bit(N, pos)}

\* mutant of get_word_assert: the index is checked against the storage width
get_word_assert_storage(N, pos) == pos < bits_in_storage(N)

\* assert(pos < size()) in get_word
get_word_assert(N, pos) == pos < size(N)

\* bits[which_word(pos)], under the assertion pos < size()
get_word(N, words, pos) == words[which_word(N, pos)]

get_msb_word(N, words) == words[arr_size(N) - 1]

\* in & 0b1
to_bool(in) == 0 \in in

\* word >> s
ShiftRight(word, s) == {b - s : b \in {x \in word : x >= s}}

(***************************************************************************)
(* get_msb_mask: (1 << (NBits % bits_per_word)) - 1 is evaluated on the    *)
(* 32-bit int literal 1 and then converted to underlying_t.                *)
(***************************************************************************)
\* 1 << s as a 32-bit int (set of one-bit positions, two's complement)
IntShiftLeftOne(s, b) ==
  IF s < IntBits THEN {s}
  ELSE IF b = "fold" THEN {}
  ELSE {s % IntBits}

\* x - 1 as a 32-bit int, wrapping
IntMinusOne(x) ==
  IF x = {} THEN 0 .. (IntBits - 1)
  ELSE (x \ {Min(x)}) \cup (0 .. (Min(x) - 1))

\* conversion of an int to underlying_t: truncation, or sign extension
IntToWord(N, x) ==
  IF bits_per_word(N) <= IntBits THEN x \cap all_ones(N)
  ELSE x \cup (IF (IntBits - 1) \in x THEN IntBits .. (bits_per_word(N) - 1) ELSE {})

get_msb_mask(N, b) ==
  IF N = bits_in_storage(N) THEN all_ones(N)
  ELSE IntToWord(N, IntMinusOne(IntShiftLeftOne(N % bits_per_word(N), b)))

\* get_msb_word() &= get_msb_mask()
ApplyMsbMask(N, b, words) ==
  [words EXCEPT ![arr_size(N) - 1] = @ \cap get_msb_mask(N, b)]

(***************************************************************************)
(* Constructors.                                                           *)
(***************************************************************************)
\* storage_t bits{0}
Bitset_default(N) == [i \in 0 .. (arr_size(N) - 1) |-> all_zero]

\* Bitset(underlying_t bits) requires NBits <= 64
Bitset_integer(N, b, v) ==
  ApplyMsbMask(N, b, [i \in 0 .. (arr_size(N) - 1) |-> v])

\* mutant of Reverse: the array is stored in the order given
Reverse_omitted(N, a) == [i \in 0 .. (arr_size(N) - 1) |-> a[i + 1]]

\* std::ranges::reverse on the array a given in reading order (a[1] first)
Reverse(N, a) == [i \in 0 .. (arr_size(N) - 1) |-> a[arr_size(N) - i]]

\* Bitset(storage_t bits) requires NBits > 64
Bitset_array(N, b, a) == ApplyMsbMask(N, b, Reverse(N, a))

(***************************************************************************)
(* Queries.                                                                *)
(***************************************************************************)
all(N, words) == \A i \in DOMAIN words : words[i] = all_ones(N)

any(N, words) == \E i \in DOMAIN words : words[i] # all_zero

none(N, words) == \A i \in DOMAIN words : words[i] = all_zero

RECURSIVE Accumulate(_, _, _)
Accumulate(words, i, acc) ==
  IF i \notin DOMAIN words THEN acc
  ELSE Accumulate(words, i + 1, acc + Cardinality(words[i]))

count(N, words) == Accumulate(words, 0, 0)

test(N, words, pos) == to_bool(ShiftRight(get_word(N, words, pos), which_bit(N, pos)))

countr_zero(N, word) == IF word = {} THEN bits_per_word(N) ELSE Min(word)

countr_one(N, word) == Min((0 .. bits_per_word(N)) \ word)

RECURSIVE FindFirstOneFrom(_, _, _)
FindFirstOneFrom(N, words, i) ==
  IF i >= arr_size(N) THEN size(N)
  ELSE IF words[i] # all_zero THEN countr_zero(N, words[i]) + i * bits_per_word(N)
  ELSE FindFirstOneFrom(N, words, i + 1)

find_first_one(N, words) == FindFirstOneFrom(N, words, 0)

RECURSIVE FindFirstZeroFrom(_, _, _)
FindFirstZeroFrom(N, words, i) ==
  IF i >= arr_size(N) THEN size(N)
  ELSE IF words[i] # all_ones(N) THEN countr_one(N, words[i]) + i * bits_per_word(N)
  ELSE FindFirstZeroFrom(N, words, i + 1)

find_first_zero(N, words) == FindFirstZeroFrom(N, words, 0)

(***************************************************************************)
(* Inputs.                                                                 *)
(***************************************************************************)
\* 0x1000'0F00'0000'000F
ExampleWord == {0, 1, 2, 3, 40, 41, 42, 43, 60}

\* 0x0FFF'FFFF'FFFF'FFFF
ExampleInteger == 0 .. 59

\* values passed to the single-integer constructor of Bitset<N>
IntegerInputs(N) ==
  { all_ones(N), {bits_per_word(N) - 1}, {N - 1},
    (0 .. N) \cap all_ones(N), ExampleInteger \cap all_ones(N) }

\* words used as elements of the array passed to the word-array constructor
ArrayWords == { 0 .. 63, {63}, ExampleWord }

ArrayInputs(N) == [1 .. arr_size(N) -> ArrayWords]

\* bit positions handed to the single-bit operations
Positions(N) == {p \in {0, N \div 2, bits_per_word(N), N - 1} : p < N}

\* bit positions beyond the logical size: the first one, and one that lies
\* inside the unused bits of the last word when that word has that many
OutOfRange(N) == {N, N + 3}

\* the builds that can differ for Bitset<N>: one build stands for all of them
\* when the shift count in get_msb_mask is below the width of int
BuildsOf(N) ==
  IF N # bits_in_storage(N) /\ N % bits_per_word(N) >= IntBits THEN Builds ELSE {"fold"}

Op(name, pos, value) == [op |-> name, pos |-> pos, value |-> value]

\* the record of a decode_glyph call, and the record that stands for no call
Glyph(called, result, in, lead, from, asserted) ==
  [called |-> called, ret |-> result, in |-> in, lead |-> lead, from |-> from,
   asserted |-> asserted]

NoGlyph == Glyph(FALSE, FALSE, 0, 0, 0, TRUE)

\* no string is being iterated
NoGraphemes ==
  /\ text = <<>>
  /\ cursor = [begin_ |-> 0, end_ |-> 0]
  /\ glyph = NoGlyph
  /\ loop = "none"

(***************************************************************************)
(* Initial states: an object right after one of its constructors.          *)
(***************************************************************************)
Init ==
  /\ NBits \in NValues
  /\ build \in BuildsOf(NBits)
  /\ \/ /\ ctor = [kind |-> "default", arg |-> <<>>]
        /\ bits = Bitset_default(NBits)
     \/ /\ NBits <= 64
        /\ \E v \in IntegerInputs(NBits) :
             /\ ctor = [kind |-> "integer", arg |-> <<v>>]
             /\ bits = Bitset_integer(NBits, build, v)
     \/ /\ NBits > 64
        /\ \E a \in ArrayInputs(NBits) :
             /\ ctor = [kind |-> "array", arg |-> a]
             /\ bits = Bitset_array(NBits, build, a)
  /\ last = Op("construct", 0, FALSE)
  /\ prev = "none"
  /\ ret = "this"
  /\ nops = 0
  /\ aborted = FALSE
  /\ NoGraphemes

(***************************************************************************)
(* Mutators.                                                               *)
(***************************************************************************)
Step(name, pos, value) ==
  /\ ~aborted
  /\ nops < MaxOps
  /\ nops' = nops + 1
  /\ prev' = last.op
  /\ last' = Op(name, pos, value)
  /\ UNCHANGED <<NBits, build, ctor, aborted>>
  /\ UNCHANGED utf8_vars

\* a call whose get_word(pos) fails its assertion: the program is aborted
\* before the word is looked up
AssertionFailure(name, pos, value) ==
  /\ ~aborted
  /\ nops < MaxOps
  /\ nops' = nops + 1
  /\ prev' = last.op
  /\ last' = Op(name, pos, value)
  /\ aborted' = TRUE
  /\ ret' = "none"
  /\ UNCHANGED <<NBits, build, ctor, bits>>
  /\ UNCHANGED utf8_vars

\* the storage after set()
SetAllWords(N, b, words) ==
  ApplyMsbMask(N, b, [i \in DOMAIN words |-> all_ones(N)])

\* mutant of SetBitWords: the clearing branch masks with mask_bit(pos)
\* instead of its complement
SetBitWords_mask_not_inverted(N, words, pos, value) ==
  IF value
  THEN [words EXCEPT ![which_word(N, pos)] = @ \cup mask_bit(N, pos)]
  ELSE [words EXCEPT ![which_word(N, pos)] = @ \cap mask_bit(N, pos)]

\* the storage after set(pos, value)
SetBitWords(N, words, pos, value) ==
  IF value
  THEN [words EXCEPT ![which_word(N, pos)] = @ \cup mask_bit(N, pos)]
  ELSE [words EXCEPT ![which_word(N, pos)] = @ \cap (all_ones(N) \ mask_bit(N, pos))]

\* the storage after reset()
ResetAllWords(N, words) == [i \in DOMAIN words |-> all_zero]

\* the storage after flip()
FlipAllWords(N, words) == [i \in DOMAIN words |-> all_ones(N) \ words[i]]

\* the storage after flip(pos): word ^= mask_bit(pos)
FlipBitWords(N, words, pos) ==
  [words EXCEPT ![which_word(N, pos)] =
     (@ \ mask_bit(N, pos)) \cup (mask_bit(N, pos) \ @)]

set ==
  /\ Step("set", 0, TRUE)
  /\ bits' = SetAllWords(NBits, build, bits)
  /\ ret' = "this"

set_pos ==
  \E pos \in Positions(NBits) \cup OutOfRange(NBits), value \in BOOLEAN :
    IF get_word_assert(NBits, pos)
    THEN /\ Step("set_pos", pos, value)
         /\ bits' = SetBitWords(NBits, bits, pos, value)
         /\ ret' = "this"
    ELSE AssertionFailure("set_pos", pos, value)

reset ==
  /\ Step("reset", 0, FALSE)
  /\ bits' = ResetAllWords(NBits, bits)
  /\ ret' = "this"

\* reset(pos) calls set(pos, false)
reset_pos ==
  \E pos \in Positions(NBits) \cup OutOfRange(NBits) :
    IF get_word_assert(NBits, pos)
    THEN /\ Step("reset_pos", pos, FALSE)
         /\ bits' = SetBitWords(NBits, bits, pos, FALSE)
         /\ ret' = "this"
    ELSE AssertionFailure("reset_pos", pos, FALSE)

\* flip() has no return statement: the reference it yields is undefined
flip ==
  /\ Step("flip", 0, FALSE)
  /\ bits' = FlipAllWords(NBits, bits)
  /\ ret' = "undefined"

flip_pos ==
  \E pos \in Positions(NBits) \cup OutOfRange(NBits) :
    IF get_word_assert(NBits, pos)
    THEN /\ Step("flip_pos", pos, FALSE)
         /\ bits' = FlipBitWords(NBits, bits, pos)
         /\ ret' = "this"
    ELSE AssertionFailure("flip_pos", pos, FALSE)

\* a call of the query test(pos): it changes nothing, unless its get_word(pos)
\* fails the assertion
test_pos ==
  \E pos \in Positions(NBits) \cup OutOfRange(NBits) :
    IF get_word_assert(NBits, pos)
    THEN ~aborted /\ UNCHANGED vars
    ELSE AssertionFailure("test", pos, FALSE)

Next == set \/ set_pos \/ reset \/ reset_pos \/ flip \/ flip_pos \/ test_pos

Spec == Init /\ [][Next]_vars

\* the instantiations whose get_msb_mask shifts the int literal by less than
\* the width of int, so that no build-dependent value enters the storage
DefinedShift(N) == N = bits_in_storage(N) \/ N % bits_per_word(N) < IntBits

InitDefinedShift == Init /\ DefinedShift(NBits)

SpecDefinedShift == InitDefinedShift /\ [][Next]_vars

(***************************************************************************)
(* UTF-8: utf8_sequence_length, Cursor<char>, decode_glyph, iterGraphemes. *)
(***************************************************************************)
\* longest string explored
MaxLen == 4

\* the bytes strings are made of: bytes at the ends of the ranges that
\* utf8_sequence_length tells apart (1: ..127, 2: 128..191, 3: 192..223,
\* 4: 224..239, 0: 240..)
Bytes == {127, 128, 191, 192, 223, 224, 240}

RECURSIVE StringsUpTo(_)
StringsUpTo(n) ==
  IF n = 0 THEN {<<>>}
  ELSE LET shorter == StringsUpTo(n - 1)
       IN shorter \cup {Append(t, b) : t \in {u \in shorter : Len(u) = n - 1}, b \in Bytes}

\* U+FFFD, stored on failure
ReplacementCharacter == 65533

utf8_sequence_length(lead_byte) ==
  IF lead_byte <= 127 THEN 1
  ELSE IF lead_byte <= 128 + 63 THEN 2
  ELSE IF lead_byte <= 128 + 64 + 31 THEN 3
  ELSE IF lead_byte <= 128 + 64 + 32 + 15 THEN 4
  ELSE 0

\* Cursor::remaining
remaining(c) == c.end_ - c.begin_

\* Cursor::ended
ended(c) == remaining(c) = 0

\* Cursor::next: the byte at begin_, begin_ advanced, and whether
\* assert(begin_ <= end_) held; a byte read beyond the string is unspecified
CursorNext(t, c) ==
  [value |-> IF c.begin_ < Len(t) THEN t[c.begin_ + 1] ELSE 0,
   cursor |-> [c EXCEPT !.begin_ = @ + 1],
   ok |-> c.begin_ + 1 <= c.end_]

\* mutant of Truncated: the bound is one byte too generous
Truncated_off_by_one(b1, c) == utf8_sequence_length(b1) > remaining(c) + 2

\* utf8_sequence_length(b1) > c.remaining() + 1, c being the cursor after b1
Truncated(b1, c) == utf8_sequence_length(b1) > remaining(c) + 1

\* the outcome of a call decode_glyph(in, c) on the string t
DecodeGlyph(t, c) ==
  IF remaining(c) = 0
  THEN [ret |-> FALSE, in |-> ReplacementCharacter, cursor |-> c, lead |-> 0,
        asserted |-> TRUE]
  ELSE
    LET n1 == CursorNext(t, c)
        b1 == n1.value
        n2 == CursorNext(t, n1.cursor)
        n3 == CursorNext(t, n2.cursor)
        n4 == CursorNext(t, n3.cursor)
        Fail == [ret |-> FALSE, in |-> ReplacementCharacter, cursor |-> n1.cursor,
                 lead |-> b1, asserted |-> n1.ok]
    IN IF utf8_sequence_length(b1) = 0 THEN Fail
       ELSE IF Truncated(b1, n1.cursor) THEN Fail
       ELSE IF b1 <= 127
         THEN [ret |-> TRUE, in |-> b1, cursor |-> n1.cursor, lead |-> b1,
               asserted |-> n1.ok]
       ELSE IF b1 <= 128 + 63
         THEN [ret |-> TRUE,
               in |-> (b1 % 32) * 64 + (n2.value % 64),
               cursor |-> n2.cursor, lead |-> b1,
               asserted |-> n1.ok /\ n2.ok]
       ELSE IF b1 <= 128 + 64 + 31
         THEN [ret |-> TRUE,
               in |-> (b1 % 16) * 4096 + (n2.value % 64) * 64 + (n3.value % 64),
               cursor |-> n3.cursor, lead |-> b1,
               asserted |-> n1.ok /\ n2.ok /\ n3.ok]
       ELSE [ret |-> TRUE,
             in |-> (b1 % 8) * 262144 + (n2.value % 64) * 4096
                      + (n3.value % 64) * 64 + (n4.value % 64),
             cursor |-> n4.cursor, lead |-> b1,
             asserted |-> n1.ok /\ n2.ok /\ n3.ok /\ n4.ok]

\* the effect of one call of decode_glyph on the cursor
Call ==
  LET r == DecodeGlyph(text, cursor)
  IN /\ cursor' = r.cursor
     /\ glyph' = Glyph(TRUE, r.ret, r.in, r.lead, cursor.begin_, r.asserted)

\* no Bitset takes part: its variables rest at a default Bitset<1>
NoBitset ==
  /\ NBits = 1
  /\ build = "fold"
  /\ ctor = [kind |-> "default", arg |-> <<>>]
  /\ bits = Bitset_default(1)
  /\ last = Op("construct", 0, FALSE)
  /\ prev = "none"
  /\ ret = "this"
  /\ nops = 0
  /\ aborted = FALSE

\* iterGraphemes(str): a Stream whose cursor spans the whole string
InitGraphemes ==
  /\ NoBitset
  /\ text \in StringsUpTo(MaxLen)
  /\ cursor = [begin_ |-> 0, end_ |-> Len(text)]
  /\ glyph = NoGlyph
  /\ loop = "running"

\* Stream::begin and It::operator++ in the range-for loop: current = next();
\* the loop ends when current is std::nullopt
operator_increment ==
  /\ loop = "running"
  /\ Call
  /\ loop' = IF ~glyph'.asserted THEN "aborted"
             ELSE IF glyph'.ret THEN "running" ELSE "ended"
  /\ UNCHANGED <<text, bitset_vars>>

\* a further call of decode_glyph on the same cursor after the loop has ended
decode_glyph ==
  /\ loop = "ended"
  /\ Call
  /\ loop' = IF ~glyph'.asserted THEN "aborted" ELSE "ended"
  /\ UNCHANGED <<text, bitset_vars>>

NextGraphemes == operator_increment \/ decode_glyph

\* the loop keeps running until its iterator compares equal to end()
SpecGraphemes ==
  InitGraphemes /\ [][NextGraphemes]_vars /\ WF_vars(operator_increment)

(***************************************************************************)
(* Type correctness.                                                       *)
(***************************************************************************)
TypeOK ==
  /\ NBits \in NValues
  /\ build \in Builds
  /\ DOMAIN bits = 0 .. (arr_size(NBits) - 1)
  /\ \A i \in DOMAIN bits : bits[i] \subseteq all_ones(NBits)
  /\ nops \in 0 .. MaxOps
  /\ ret \in {"this", "undefined", "none"}
  /\ aborted \in BOOLEAN

(***************************************************************************)
(* Vocabulary of the properties.                                           *)
(***************************************************************************)
\* the storage bit at absolute position q of the word array
StorageBit(q) == (q % bits_per_word(NBits)) \in bits[q \div bits_per_word(NBits)]

\* the same in a given word array of Bitset<N>
StorageBitIn(N, words, q) == (q % bits_per_word(N)) \in words[q \div bits_per_word(N)]

\* the storage positions that lie beyond the logical size
UnusedPositions == NBits .. (bits_in_storage(NBits) - 1)

\* the positions of [0, N) whose bit reads as set / as clear through test
SetPositions == {p \in 0 .. (NBits - 1) : test(NBits, bits, p)}

ClearPositions == {p \in 0 .. (NBits - 1) : ~test(NBits, bits, p)}

Constructed == last.op = "construct"

(***************************************************************************)
(* Properties.                                                             *)
(***************************************************************************)
\* C1: in every state reachable from a constructor by set(), set(pos,v),
\* reset(), reset(pos), flip() and flip(pos), every storage bit at a
\* position >= N is zero.  (Checked under SpecDefinedShift, where the mask
\* itself is well defined, and under Spec.)
C1_MsbMaskingInvariant == \A q \in UnusedPositions : ~StorageBit(q)

\* C2: all() is true exactly when every position of [0,N) is set, and all()
\* is true immediately after set().
C2_AllIffEveryBitSet ==
  /\ all(NBits, bits) <=> (SetPositions = 0 .. (NBits - 1))
  /\ last.op = "set" => all(NBits, bits)

\* C3: right after any construction count() <= N; right after set() every
\* bit of [0,N) tests true, no storage bit at a position >= N is set and
\* count() = N.
C3_CountBoundedAfterConstructionAndSet ==
  /\ Constructed => count(NBits, bits) <= NBits
  /\ last.op = "set" =>
       /\ SetPositions = 0 .. (NBits - 1)
       /\ \A q \in UnusedPositions : ~StorageBit(q)
       /\ count(NBits, bits) = NBits

\* C4: after reset() followed by set(pos), test(pos) is true and test(q) is
\* false for every other q of [0,N).
C4_ResetThenSetPos ==
  (prev = "reset" /\ last.op = "set_pos" /\ last.value /\ ~aborted) =>
     /\ test(NBits, bits, last.pos)
     /\ \A q \in (0 .. (NBits - 1)) \ {last.pos} : ~test(NBits, bits, q)

\* C4 witness: reset() then set(129) on a Bitset<130> that was mutated before
C4_Witness ==
  /\ NBits = 130 /\ nops = 3
  /\ prev = "reset" /\ last = Op("set_pos", 129, TRUE)
  /\ test(NBits, bits, 129)

\* C5: find_first_one() returns the smallest set position of [0,N), and N
\* when no position of [0,N) is set.
C5_FindFirstOne ==
  find_first_one(NBits, bits) =
    (IF SetPositions = {} THEN NBits ELSE Min(SetPositions))

\* C6: find_first_zero() returns the smallest clear position of [0,N), and
\* exactly N when every position of [0,N) is set; after set() it returns N and
\* after set() then reset(k) it returns k.
C6_FindFirstZero ==
  /\ find_first_zero(NBits, bits) =
       (IF ClearPositions = {} THEN NBits ELSE Min(ClearPositions))
  /\ last.op = "set" => find_first_zero(NBits, bits) = NBits
  /\ (prev = "set" /\ last.op = "reset_pos" /\ ~aborted) =>
       find_first_zero(NBits, bits) = last.pos

\* C7: Bitset<N>(v) for N in 1..64 holds bit p of v at every p < N and zero
\* at every storage position >= N; Bitset<64>(0x0FFF'FFFF'FFFF'FFFF) has
\* count() = 60.
C7_IntegerConstructor ==
  (Constructed /\ ctor.kind = "integer") =>
     /\ \A p \in 0 .. (NBits - 1) : test(NBits, bits, p) <=> (p \in ctor.arg[1])
     /\ \A q \in UnusedPositions : ~StorageBit(q)
     /\ (NBits = 64 /\ ctor.arg[1] = ExampleInteger) => count(NBits, bits) = 60

\* C8: for N > 64 the word-array constructor stores word i = a[k-1-i] for
\* i < k-1 and a[0] AND msb_mask as the last word, so that bit p of the set
\* is bit (p mod 64) of a[k-1-(p div 64)] for all p < N; Bitset<65> from
\* {0x1000'0F00'0000'000F, 0xFFFF'FFFF'FFFF'FFFF} has count() = 65.
\* (ctor.arg is 1-based: ctor.arg[j+1] is a[j].)
C8_ArrayConstructor ==
  (Constructed /\ ctor.kind = "array") =>
     LET k == arr_size(NBits)
         a == ctor.arg
     IN /\ \A i \in 0 .. (k - 2) : bits[i] = a[k - i]
        /\ bits[k - 1] = a[1] \cap get_msb_mask(NBits, build)
        /\ \A p \in 0 .. (NBits - 1) :
             test(NBits, bits, p) <=> ((p % 64) \in a[k - (p \div 64)])
        /\ (NBits = 65 /\ a = <<ExampleWord, 0 .. 63>>) => count(NBits, bits) = 65

C10_MsbMaskDerivation ==
  get_msb_mask(NBits, build) =
    (IF NBits = bits_in_storage(NBits) THEN all_ones(NBits)
     ELSE 0 .. ((NBits % bits_per_word(NBits)) - 1))

\* the sizes asserted by the repository's test
FootprintTable ==
  (1 :> 1) @@ (8 :> 1) @@ (9 :> 2) @@ (16 :> 2) @@ (17 :> 4) @@ (32 :> 4) @@
  (33 :> 8) @@ (64 :> 8) @@ (65 :> 16) @@ (128 :> 16)

\* C11: the word width is 64 if N > 32, else 32 if N > 16, else 16 if N > 8,
\* else 8; the number of words is ceil(N/64); the footprint in bytes is
\* ceil(N/64) * width/8, which gives N=1->1, 8->1, 9->2, 16->2, 17->4, 32->4,
\* 33->8, 64->8, 65->16, 128->16.
C11_WordSelectionAndFootprint ==
  LET w == bits_per_word(NBits)
      k == arr_size(NBits)
  IN /\ w \in {8, 16, 32, 64}
     /\ (w = 64) <=> (NBits > 32)
     /\ (w = 32) <=> (NBits > 16 /\ NBits <= 32)
     /\ (w = 16) <=> (NBits > 8 /\ NBits <= 16)
     /\ (w = 8) <=> (NBits <= 8)
     /\ k * 64 >= NBits /\ (k - 1) * 64 < NBits
     /\ DOMAIN bits = 0 .. (k - 1)
     /\ sizeof_Bitset(NBits) * 8 = k * w
     /\ NBits \in DOMAIN FootprintTable => sizeof_Bitset(NBits) = FootprintTable[NBits]

\* C11 witness: a Bitset<64> in use, one word of 8 bytes
C11_Witness ==
  /\ NBits = 64 /\ nops = 2
  /\ sizeof_Bitset(NBits) = 8 /\ DOMAIN bits = {0}

\* C12: flip() inverts every bit of [0,N), leaves the storage bits at
\* positions >= N zero (it re-applies the MSB mask as set() does) and returns
\* the mutated instance.
C12_FlipAllMasksAndReturns ==
  [][(last'.op = "flip" /\ nops' = nops + 1) =>
       /\ \A p \in 0 .. (NBits - 1) : test(NBits, bits', p) # test(NBits, bits, p)
       /\ \A q \in UnusedPositions : ~StorageBitIn(NBits, bits', q)
       /\ ret' = "this"]_vars

\* C13: in every reachable state count() is the number of positions p of
\* [0,N) with test(p) true, hence 0 <= count() <= N.
C13_CountIsNumberOfSetPositions ==
  /\ count(NBits, bits) = Cardinality(SetPositions)
  /\ count(NBits, bits) >= 0 /\ count(NBits, bits) <= NBits

\* C14: in every reachable state any() is true iff some position of [0,N) is
\* set, none() is true iff no position of [0,N) is set, and none() = ~any().
C14_AnyNone ==
  /\ any(NBits, bits) <=> (SetPositions # {})
  /\ none(NBits, bits) <=> (SetPositions = {})
  /\ none(NBits, bits) <=> ~any(NBits, bits)

\* the single-bit calls, which reach the storage through get_word(pos)
SingleBitCalls == {"test", "set_pos", "reset_pos", "flip_pos"}

\* C15: test(pos), set(pos,v), reset(pos) and flip(pos) with pos >= N fail on
\* the range assertion: the call does not return and the storage, the bits
\* at positions >= N of the last word included, is left unchanged.
C15_OutOfRangeFailsFast ==
  [][(last'.op \in SingleBitCalls /\ nops' = nops + 1 /\ last'.pos >= NBits) =>
       /\ aborted'
       /\ ret' = "none"
       /\ bits' = bits]_vars

\* C15 witness: set(12) on a Bitset<9> ended on the assertion, and storage
\* bit 12 of the one 16-bit word is still clear
C15_Witness ==
  /\ NBits = 9 /\ aborted
  /\ last = Op("set_pos", 12, TRUE)
  /\ ~StorageBit(12)

\* the bit positions at which two words differ
ChangedBits(w1, w2) == (w1 \ w2) \cup (w2 \ w1)

\* C16: for pos < N, set(pos,true) makes bit pos 1, set(pos,false) and
\* reset(pos) make it 0 (with the same resulting state), flip(pos) inverts
\* it, and every other storage bit, those at positions >= N included, is
\* unchanged.
C16_SingleBitMutatorsTouchOneBit ==
  [][(last'.op \in {"set_pos", "reset_pos", "flip_pos"} /\ nops' = nops + 1
        /\ last'.pos < NBits) =>
       LET pos == last'.pos
           expected == CASE last'.op = "set_pos" -> last'.value
                         [] last'.op = "reset_pos" -> FALSE
                         [] last'.op = "flip_pos" -> ~StorageBitIn(NBits, bits, pos)
       IN /\ ~aborted'
          /\ StorageBitIn(NBits, bits', pos) = expected
          /\ test(NBits, bits', pos) = expected
          /\ \A i \in DOMAIN bits :
               ChangedBits(bits[i], bits'[i]) \subseteq
                 {q - i * bits_per_word(NBits) : q \in {pos}}
          /\ last'.op = "reset_pos" =>
               bits' = SetBitWords(NBits, bits, pos, FALSE)]_vars

\* C16 witness: set() then reset(64) on a Bitset<65>: bit 64 is clear, bit 0
\* is still set
C16_Witness ==
  /\ NBits = 65 /\ ~aborted
  /\ prev = "set" /\ last = Op("reset_pos", 64, FALSE)
  /\ ~test(NBits, bits, 64) /\ test(NBits, bits, 0)

\* C17: ceil(N/64) * word_width >= N; for every pos of [0,N) the word index
\* pos div word_width is below the number of storage words; N mod word_width
\* is 0 only when N is the total storage width, so that the computed MSB mask
\* is never zero.
C17_StorageCoversSize ==
  /\ arr_size(NBits) * bits_per_word(NBits) >= NBits
  /\ \A pos \in 0 .. (NBits - 1) : which_word(NBits, pos) < arr_size(NBits)
  /\ NBits % bits_per_word(NBits) = 0 => NBits = bits_in_storage(NBits)
  /\ get_msb_mask(NBits, build) # all_zero

\* the bytes consumed by the last call of decode_glyph
Consumed == cursor.begin_ - glyph.from

\* C18: repeated calls of decode_glyph never advance begin_ past end_ and
\* never fail the assertion of Cursor::next; a call that returns true has
\* consumed exactly utf8_sequence_length(lead byte) >= 1 bytes; a call on an
\* exhausted cursor returns false; the loop over iterGraphemes ends.
C18_CursorSafety ==
  /\ [](/\ cursor.begin_ <= cursor.end_
        /\ glyph.asserted /\ loop # "aborted"
        /\ (glyph.called /\ glyph.ret) =>
             /\ Consumed = utf8_sequence_length(glyph.lead)
             /\ Consumed >= 1
        /\ (glyph.called /\ glyph.from = cursor.end_) => ~glyph.ret)
  /\ <>(loop = "ended")

\* C18 witness: in a string of four bytes the loop decoded a one-byte glyph
\* and then a three-byte glyph that ends exactly at end_
C18_Witness ==
  /\ loop = "running" /\ Len(text) = 4
  /\ glyph.called /\ glyph.ret /\ glyph.lead = 192
  /\ glyph.from = 1 /\ cursor.begin_ = 4 /\ cursor.end_ = 4

====
